---- MODULE Spec2Model ----
(***************************************************************************)
(* Model of blade's package target (src/blade/package_target.py).          *)
(*                                                                         *)
(* Python strings are sequences of characters (one-character TLA+          *)
(* strings).  A source specification is a record [shape, items]: shape     *)
(* "str" with one item, shape "tuple" with the tuple's items, shape "list" *)
(* for a non-tuple sequence.  The loop of _process_srcs takes one          *)
(* specification per step; the srcs list ends where Register is taken.     *)
(***************************************************************************)
EXTENDS Integers, Sequences, FiniteSets, TLC

\* ------------------------------------------------------------------------
\* Bounds of the model
\* ------------------------------------------------------------------------
MaxSrcs == 2   \* longest srcs list given to package()
MaxRuns == 2   \* how often the engine runs scons_rules on the target

\* ------------------------------------------------------------------------
\* String helpers (Python str operations used by the module)
\* ------------------------------------------------------------------------
StartsWith(str, prefix) ==
    /\ Len(str) >= Len(prefix)
    /\ SubSeq(str, 1, Len(prefix)) = prefix

Drop(str, k) == SubSeq(str, k + 1, Len(str))

Last(list) == list[Len(list)]

\* Python's `sub in str` for a non-empty sub
Contains(str, sub) ==
    \E i \in 1..(Len(str) - Len(sub) + 1) : SubSeq(str, i, i + Len(sub) - 1) = sub

\* str.strip()
RECURSIVE LStrip(_)
LStrip(str) ==
    IF str # <<>> /\ Head(str) = " " THEN LStrip(Tail(str)) ELSE str

RECURSIVE RStrip(_)
RStrip(str) ==
    IF str # <<>> /\ str[Len(str)] = " " THEN RStrip(SubSeq(str, 1, Len(str) - 1))
    ELSE str

Strip(str) == RStrip(LStrip(str))

\* os.path.join(a, b) on posix
Join(a, b) ==
    IF StartsWith(b, <<"/">>) THEN b
    ELSE IF a = <<>> \/ a[Len(a)] = "/" THEN a \o b
    ELSE a \o <<"/">> \o b

\* The segments of a path, split at "/"
RECURSIVE Split(_, _)
Split(str, cur) ==
    IF str = <<>> THEN <<cur>>
    ELSE IF Head(str) = "/" THEN <<cur>> \o Split(Tail(str), <<>>)
    ELSE Split(Tail(str), Append(cur, Head(str)))

RECURSIVE JoinSegments(_)
JoinSegments(segs) ==
    IF segs = <<>> THEN <<>>
    ELSE IF Len(segs) = 1 THEN segs[1]
    ELSE segs[1] \o <<"/">> \o JoinSegments(Tail(segs))

\* os.path.normpath for relative paths without "..": empty and "." segments go
NormPath(path) ==
    JoinSegments(SelectSeq(Split(path, <<>>), LAMBDA g : g # <<>> /\ g # <<".">>))

\* ------------------------------------------------------------------------
\* The target's identity and the workspace it is declared in
\* ------------------------------------------------------------------------
PkgPath == <<"p">>                          \* Target.path
Name == <<"n">>                             \* Target.name
FullName == PkgPath \o <<":">> \o Name      \* Target.fullname
TargetFilePath == <<"b", "/", "p", "/", "n">>  \* Target._target_file_path()
EnvName == <<"e", "n", "v", "_">> \o Name   \* Target._env_name()

\* Target._var_name(suffix)
VarName(suffix) ==
    IF suffix = <<>> THEN <<"v", "_">> \o Name
    ELSE <<"v", "_">> \o Name \o <<"_", "_">> \o suffix

\* Target._source_file_path(name)
SourceFilePath(src) == NormPath(Join(PkgPath, src))

\* Regular files and directories of the workspace, relative to its root
Files == { <<"w">>,
           <<"p", "/", "a">>,
           <<"p", "/", "d", "/", "b">>,
           <<"p", "/", "d", "/", "e", "/", "c">> }

Dirs == { <<"p">>,
          <<"p", "/", "d">>,
          <<"p", "/", "d", "/", "e">>,
          <<"p", "/", "m">> }

EntryNames == {"a", "b", "c", "d", "e", "m", "w"}

\* Two directory listing orders os.listdir may give
Rank(order, nm) ==
    LET asc == CASE nm = "a" -> 1 [] nm = "b" -> 2 [] nm = "c" -> 3 [] nm = "d" -> 4
                 [] nm = "e" -> 5 [] nm = "m" -> 6 [] nm = "w" -> 7
    IN IF order = "asc" THEN asc ELSE 8 - asc

ListingOrders == {"asc", "desc"}

\* os.path.isfile
IsFile(path) == path \in Files

RECURSIVE Listed(_, _)
Listed(names, order) ==
    IF names = {} THEN <<>>
    ELSE LET first == CHOOSE x \in names : \A y \in names : Rank(order, x) <= Rank(order, y)
         IN <<first>> \o Listed(names \ {first}, order)

\* os.walk(top), flattened to os.path.join(dir, f) for every f of every
\* (dir, subdirs, files) it yields, top-down
RECURSIVE Walk(_, _)
Walk(top, order) ==
    IF top \notin Dirs THEN <<>>
    ELSE LET files == Listed({nm \in EntryNames : Join(top, <<nm>>) \in Files}, order)
             subdirs == Listed({nm \in EntryNames : Join(top, <<nm>>) \in Dirs}, order)
             Below[i \in 0..Len(subdirs)] ==
                 IF i = 0 THEN <<>>
                 ELSE Below[i - 1] \o Walk(Join(top, <<subdirs[i]>>), order)
         IN [i \in 1..Len(files) |-> Join(top, <<files[i]>>)] \o Below[Len(subdirs)]

\* os.path.relpath(f, start) for a file f that os.walk(start) found
RelPath(f, start) == Drop(NormPath(f), Len(NormPath(start)) + 1)

\* ------------------------------------------------------------------------
\* Source specifications the BUILD file may give
\* ------------------------------------------------------------------------
Str(text) == [shape |-> "str", items |-> <<text>>]
Tup(items) == [shape |-> "tuple", items |-> items]
Lst(items) == [shape |-> "list", items |-> items]
NoSpec == [shape |-> "none", items |-> <<>>]

LocationOpen == <<"$", "(", "l", "o", "c", "a", "t", "i", "o", "n">>
Loc(key, kind) == LocationOpen \o <<" ">> \o key \o kind \o <<")">>

DotDot == <<".", ".">>
Marker == <<"/", "/">>

KeyX == <<":", "x">>                       \* target x of this package
KeyY == <<"/", "/", "q", ":", "y">>        \* target y of package q
KindJ == <<"j">>

SrcSpecs ==
    { Str(<<"a">>),
      Str(<<"/", "/", "w">>),
      Tup(<< <<"a">>, <<"x">> >>),
      Str(<<"d">>),
      Tup(<< <<"d">>, <<"o">> >>),
      Str(<<>>),
      Str(<<".", ".", "/", "w">>),
      Tup(<< <<"a">>, <<".", ".", "/", "x">> >>),
      Tup(<< <<"a">>, <<"/", "x">> >>),
      Str(Loc(KeyX, <<>>)),
      Tup(<< Loc(KeyX, <<" ", "j">>), <<"o">> >>),
      Str(Loc(KeyY, <<" ", " ", "j">>)),
      Tup(<< Loc(KeyY, <<>>), <<"y">> >>),
      Tup(<< Loc(KeyY, <<>>), <<".", ".", "/", "o">> >>),
      Tup(<< <<"a">>, <<"x">>, <<"y">> >>),
      Lst(<< <<"a">>, <<"x">> >>) }

\* _package_types
PackageTypes == { <<"t", "a", "r">>,
                  <<"t", "a", "r", ".", "g", "z">>,
                  <<"t", "g", "z">>,
                  <<"t", "a", "r", ".", "b", "z", "2">>,
                  <<"t", "b", "z">> }

\* The type arguments tried: two valid ones and an invalid one
TypeArgs == { <<"t", "a", "r">>, <<"t", "g", "z">>, <<"z", "i", "p">> }

\* The deps arguments tried (no duplicates)
DepsArgs == { <<>>, <<KeyX>>, <<KeyY, KeyX>> }

\* ------------------------------------------------------------------------
\* Collaborators: location_re, Target._unify_dep, Target.__init__,
\* console.error_exit, the registry of build targets
\* ------------------------------------------------------------------------
NoMatch == [matched |-> FALSE, key |-> <<>>, type |-> <<>>]

IsWordChar(c) == c \notin {" ", "/", ".", ":", "(", ")", "$"}

\* location_re.search(src): "$(location" whitespace key [whitespace kind] ")"
\* where key is non-blank text holding a ":" that is not its last character;
\* group 2 keeps its leading whitespace
LocationSearch(src) ==
    IF ~(StartsWith(src, LocationOpen) /\ src[Len(src)] = ")") THEN NoMatch
    ELSE LET inner == SubSeq(src, Len(LocationOpen) + 1, Len(src) - 1)
             body == LStrip(inner)
             keyLen == IF \E i \in 1..Len(body) : body[i] = " "
                       THEN (CHOOSE i \in 1..Len(body) :
                                /\ body[i] = " "
                                /\ \A j \in 1..(i - 1) : body[j] # " ") - 1
                       ELSE Len(body)
             key == SubSeq(body, 1, keyLen)
             rest == Drop(body, keyLen)
         IN IF /\ inner # body
               /\ \E i \in 1..(Len(key) - 1) : key[i] = ":"
               /\ \A i \in 1..Len(LStrip(rest)) : IsWordChar(LStrip(rest)[i])
            THEN [matched |-> TRUE, key |-> key, type |-> rest]
            ELSE NoMatch

\* Target._unify_dep: the canonical key of a target reference
UnifyDep(key) ==
    IF StartsWith(key, <<":">>) THEN PkgPath \o key
    ELSE IF StartsWith(key, Marker) THEN Drop(key, 2)
    ELSE Join(PkgPath, key)

\* list.append(key) guarded by `key not in list`
AppendIfAbsent(list, key) ==
    IF \E i \in 1..Len(list) : list[i] = key THEN list ELSE Append(list, key)

\* Target.__init__: the declared deps, unified, each once
RECURSIVE InitTargetDeps(_)
InitTargetDeps(declared) ==
    IF declared = <<>> THEN <<>>
    ELSE AppendIfAbsent(InitTargetDeps(SubSeq(declared, 1, Len(declared) - 1)),
                        UnifyDep(declared[Len(declared)]))

\* What ended construction: console.error_exit prints the message (which
\* names the target and the value) and exits; a Python exception names neither
NoError == [exc |-> "none", fullname |-> <<>>, value |-> NoSpec]
ErrorExit(value) == [exc |-> "SystemExit", fullname |-> FullName, value |-> value]
ValueError == [exc |-> "ValueError", fullname |-> <<>>, value |-> NoSpec]

\* The other targets of the build and the output kinds each may have
RegisteredKeys == { UnifyDep(KeyX), UnifyDep(KeyY) }
Kinds == { <<>>, KindJ }
Registries == [RegisteredKeys -> { {<<>>}, {<<>>, KindJ} }]

\* ------------------------------------------------------------------------
\* State
\* ------------------------------------------------------------------------
VARIABLES
    pc,             \* "idle", "processing" (inside _process_srcs), "built",
                    \* "failed" (construction ended in an error)
    type,           \* data['type']
    sources,        \* data['sources']: <<path, destination>>
    locations,      \* data['locations']: <<key, kind, destination>>
    deps,           \* Target.deps
    expanded_deps,  \* Target.expanded_deps
    s,              \* the loop variable of _process_srcs
    n,              \* how many specifications the loop has taken
    error,          \* the error that ended construction
    registered,     \* blade.register_target was called with the target
    targets,        \* blade.get_build_targets(): key -> kinds with an output
    listing,        \* the order os.listdir lists a directory in
    emitted         \* one record per run of scons_rules

vars == <<pc, type, sources, locations, deps, expanded_deps, s, n, error,
          registered, targets, listing, emitted>>

\* ------------------------------------------------------------------------
\* Construction: PackageTarget.__init__ and _process_srcs
\* ------------------------------------------------------------------------
Init ==
    /\ pc = "idle"
    /\ type = <<>>
    /\ sources = <<>>
    /\ locations = <<>>
    /\ deps = <<>>
    /\ expanded_deps = <<>>
    /\ s = NoSpec
    /\ n = 0
    /\ error = NoError
    /\ registered = FALSE
    /\ targets \in Registries
    /\ listing \in ListingOrders
    /\ emitted = <<>>

\* package(name, srcs, deps, type) entering PackageTarget.__init__, up to the
\* call of _process_srcs
Construct ==
    /\ pc = "idle"
    /\ \E t \in TypeArgs, declared \in DepsArgs :
          /\ deps' = InitTargetDeps(declared)
          /\ expanded_deps' = InitTargetDeps(declared)
          /\ IF t \notin PackageTypes
             THEN /\ pc' = "failed"
                  /\ error' = ErrorExit(Str(t))
                  /\ UNCHANGED <<type, sources, locations>>
             ELSE /\ pc' = "processing"
                  /\ type' = t
                  /\ sources' = <<>>
                  /\ locations' = <<>>
                  /\ UNCHANGED error
    /\ UNCHANGED <<s, n, registered, targets, listing, emitted>>

\* _add_location_reference without its `key not in` tests
AddLocationReference_Unguarded(data, m, dst) ==
    LET kind == Strip(m.type)
        key == UnifyDep(m.key)
    IN [locations |-> Append(data.locations, <<key, kind, dst>>),
        expanded_deps |-> Append(data.expanded_deps, key),
        deps |-> Append(data.deps, key)]

\* _add_location_reference on the data it changes
AddLocationReference(data, m, dst) ==
    LET kind == Strip(m.type)
        key == UnifyDep(m.key)
    IN [locations |-> Append(data.locations, <<key, kind, dst>>),
        expanded_deps |-> AppendIfAbsent(data.expanded_deps, key),
        deps |-> AppendIfAbsent(data.deps, key)]

\* _get_source_path defaulting the destination to src as given, marker and all
GetSourcePath_DefaultsToGivenSrc(src, dst) ==
    IF Contains(src, DotDot) \/ Contains(dst, DotDot)
    THEN [exit |-> TRUE, path |-> <<>>, dst |-> <<>>]
    ELSE LET stripped == IF StartsWith(src, Marker) THEN Drop(src, 2) ELSE src
             path == IF StartsWith(src, Marker) THEN stripped ELSE SourceFilePath(src)
         IN [exit |-> FALSE, path |-> path,
             dst |-> IF dst = <<>> THEN src ELSE dst]

\* _get_source_path: exit is set where console.error_exit ends the process
GetSourcePath(src, dst) ==
    IF Contains(src, DotDot) \/ Contains(dst, DotDot)
    THEN [exit |-> TRUE, path |-> <<>>, dst |-> <<>>]
    ELSE LET stripped == IF StartsWith(src, Marker) THEN Drop(src, 2) ELSE src
             path == IF StartsWith(src, Marker) THEN stripped ELSE SourceFilePath(src)
         IN [exit |-> FALSE, path |-> path,
             dst |-> IF dst = <<>> THEN stripped ELSE dst]

\* The os.walk loop joining the destination with the file's name alone
WalkEntries_NameOnly(top, dst, order) ==
    LET found == Walk(top, order)
    IN [i \in 1..Len(found) |-> <<found[i], Join(dst, <<Last(found[i])>>)>>]

\* The entries the os.walk loop of _add_package_source appends
WalkEntries(top, dst, order) ==
    LET found == Walk(top, order)
    IN [i \in 1..Len(found) |-> <<found[i], Join(dst, RelPath(found[i], top))>>]

\* _add_package_source on data['sources'], after _get_source_path gave r
AddPackageSource(srcs, r, order) ==
    IF IsFile(r.path) THEN Append(srcs, <<r.path, r.dst>>)
    ELSE srcs \o WalkEntries(r.path, r.dst, order)

\* One iteration of the loop of _process_srcs over the specification spec
ProcessSrc(spec) ==
    /\ pc = "processing"
    /\ n < MaxSrcs
    /\ s' = spec
    /\ n' = n + 1
    /\ IF spec.shape = "tuple" /\ Len(spec.items) # 2
       THEN \* `src, dst = s` cannot unpack
            /\ pc' = "failed"
            /\ error' = ValueError
            /\ UNCHANGED <<sources, locations, deps, expanded_deps>>
       ELSE IF spec.shape \notin {"tuple", "str"}
       THEN /\ pc' = "failed"
            /\ error' = ErrorExit(spec)
            /\ UNCHANGED <<sources, locations, deps, expanded_deps>>
       ELSE LET src == spec.items[1]
                dst == IF spec.shape = "tuple" THEN spec.items[2] ELSE <<>>
                m == LocationSearch(src)
                r == GetSourcePath(src, dst)
            IN IF m.matched
               THEN LET data == AddLocationReference(
                                    [locations |-> locations, deps |-> deps,
                                     expanded_deps |-> expanded_deps], m, dst)
                    IN /\ locations' = data.locations
                       /\ deps' = data.deps
                       /\ expanded_deps' = data.expanded_deps
                       /\ UNCHANGED <<pc, error, sources>>
               ELSE IF r.exit
               THEN /\ pc' = "failed"
                    /\ error' = ErrorExit(Tup(<<src, dst>>))
                    /\ UNCHANGED <<sources, locations, deps, expanded_deps>>
               ELSE /\ sources' = AddPackageSource(sources, r, listing)
                    /\ UNCHANGED <<pc, error, locations, deps, expanded_deps>>
    /\ UNCHANGED <<type, registered, targets, listing, emitted>>

\* The loop of _process_srcs ends, __init__ returns and package() registers
\* the target
Register ==
    /\ pc = "processing"
    /\ pc' = "built"
    /\ registered' = TRUE
    /\ UNCHANGED <<type, sources, locations, deps, expanded_deps, s, n, error,
                   targets, listing, emitted>>

\* ------------------------------------------------------------------------
\* Rule emission: scons_rules
\* ------------------------------------------------------------------------
\* A line given to Target._write_rule
Rule(op, var, target, source, value) ==
    [op |-> op, var |-> var, target |-> target, source |-> source, value |-> value]

\* self._target_file_path() + '.sources'
SourcesDir == TargetFilePath \o <<".", "s", "o", "u", "r", "c", "e", "s">>

\* 'source__%s' % i and 'location__%s' % i
SourceSuffix(i) == <<"s", "o", "u", "r", "c", "e", "_", "_", ToString(i)>>

\* the location variable named as the source variables are
LocationSuffix_AsSource(i) == <<"s", "o", "u", "r", "c", "e", "_", "_", ToString(i)>>

LocationSuffix(i) == <<"l", "o", "c", "a", "t", "i", "o", "n", "_", "_", ToString(i)>>

\* Target._get_target_var(kind) of the target registered under key: its
\* output variable for that kind, empty when it has none
TargetVar(key, kind) == <<"v", "_">> \o key \o <<"_", "_">> \o kind
GetTargetVar(tg, key, kind) ==
    IF kind \in tg[key] THEN TargetVar(key, kind) ELSE <<>>

\* The lists scons_rules starts from, after _clone_env
NoRules ==
    [rules |-> <<Rule("Clone", EnvName, <<>>, <<>>, <<>>)>>,
     source_vars |-> <<>>, location_vars |-> <<>>,
     package_path_list |-> <<>>, warnings |-> <<>>]

\* _generate_source_rules: the loop from index i (0-based, as enumerate) on
RECURSIVE GenerateSourceRules(_, _, _, _)
GenerateSourceRules(acc, srcs, sources_dir, i) ==
    IF i >= Len(srcs) THEN acc
    ELSE LET src == srcs[i + 1][1]
             dst == Join(sources_dir, srcs[i + 1][2])
             var == VarName(SourceSuffix(i))
         IN GenerateSourceRules(
                [acc EXCEPT !.rules = Append(@, Rule("PackageSource", var, dst, <<src>>, <<>>)),
                            !.source_vars = Append(@, var),
                            !.package_path_list = Append(@, dst)],
                srcs, sources_dir, i + 1)

\* _generate_location_reference_rules leaving the loop at the first location
\* without an output
RECURSIVE GenerateLocationReferenceRules_StopAtMissing(_, _, _, _, _)
GenerateLocationReferenceRules_StopAtMissing(acc, locs, tg, sources_dir, i) ==
    IF i >= Len(locs) THEN acc
    ELSE LET key == locs[i + 1][1]
             kind == locs[i + 1][2]
             dst == locs[i + 1][3]
             target_var == GetTargetVar(tg, key, kind)
             staged == Join(sources_dir, dst)
             var == VarName(LocationSuffix(i))
         IN IF target_var = <<>>
            THEN [acc EXCEPT !.warnings = Append(@, <<FullName, key, kind>>)]
            ELSE GenerateLocationReferenceRules_StopAtMissing(
                     IF dst # <<>>
                     THEN [acc EXCEPT
                             !.rules = Append(@, Rule("PackageSource", var, staged,
                                                      <<target_var>>, <<>>)),
                             !.location_vars = Append(@, var),
                             !.package_path_list = Append(@, staged)]
                     ELSE [acc EXCEPT !.location_vars = Append(@, target_var)],
                     locs, tg, sources_dir, i + 1)

\* _generate_location_reference_rules: the loop from index i on
RECURSIVE GenerateLocationReferenceRules(_, _, _, _, _)
GenerateLocationReferenceRules(acc, locs, tg, sources_dir, i) ==
    IF i >= Len(locs) THEN acc
    ELSE LET key == locs[i + 1][1]
             kind == locs[i + 1][2]
             dst == locs[i + 1][3]
             target_var == GetTargetVar(tg, key, kind)
             staged == Join(sources_dir, dst)
             var == VarName(LocationSuffix(i))
             next ==
                 IF target_var = <<>>
                 THEN [acc EXCEPT !.warnings = Append(@, <<FullName, key, kind>>)]
                 ELSE IF dst # <<>>
                 THEN [acc EXCEPT
                         !.rules = Append(@, Rule("PackageSource", var, staged,
                                                  <<target_var>>, <<>>)),
                         !.location_vars = Append(@, var),
                         !.package_path_list = Append(@, staged)]
                 ELSE [acc EXCEPT !.location_vars = Append(@, target_var)]
         IN GenerateLocationReferenceRules(next, locs, tg, sources_dir, i + 1)

\* scons_rules giving the archive rule the location variables first
SconsRulesOutput_LocationsFirst(srcs, locs, tg, package_type) ==
    LET acc == GenerateLocationReferenceRules(
                   GenerateSourceRules(NoRules, srcs, SourcesDir, 0),
                   locs, tg, SourcesDir, 0)
        package == Rule("Package", VarName(<<>>),
                        TargetFilePath \o <<".">> \o package_type,
                        acc.location_vars \o acc.source_vars, <<>>)
        suffix == Rule("Append", EnvName, <<>>, <<>>, <<package_type>>)
        depends == Rule("Depends", VarName(<<>>), <<>>, <<>>, acc.package_path_list)
    IN [rules |-> acc.rules \o <<package, suffix>> \o
                  (IF acc.package_path_list # <<>> THEN <<depends>> ELSE <<>>),
        warnings |-> acc.warnings]

\* scons_rules without its `if package_path_list` test
SconsRulesOutput_AlwaysDepends(srcs, locs, tg, package_type) ==
    LET acc == GenerateLocationReferenceRules(
                   GenerateSourceRules(NoRules, srcs, SourcesDir, 0),
                   locs, tg, SourcesDir, 0)
        package == Rule("Package", VarName(<<>>),
                        TargetFilePath \o <<".">> \o package_type,
                        acc.source_vars \o acc.location_vars, <<>>)
        suffix == Rule("Append", EnvName, <<>>, <<>>, <<package_type>>)
        depends == Rule("Depends", VarName(<<>>), <<>>, <<>>, acc.package_path_list)
    IN [rules |-> acc.rules \o <<package, suffix>> \o
                  <<depends>>,
        warnings |-> acc.warnings]

\* What one call of scons_rules writes: its rules and its warnings
SconsRulesOutput(srcs, locs, tg, package_type) ==
    LET acc == GenerateLocationReferenceRules(
                   GenerateSourceRules(NoRules, srcs, SourcesDir, 0),
                   locs, tg, SourcesDir, 0)
        package == Rule("Package", VarName(<<>>),
                        TargetFilePath \o <<".">> \o package_type,
                        acc.source_vars \o acc.location_vars, <<>>)
        suffix == Rule("Append", EnvName, <<>>, <<>>, <<package_type>>)
        depends == Rule("Depends", VarName(<<>>), <<>>, <<>>, acc.package_path_list)
    IN [rules |-> acc.rules \o <<package, suffix>> \o
                  (IF acc.package_path_list # <<>> THEN <<depends>> ELSE <<>>),
        warnings |-> acc.warnings]

\* scons_rules dropping from data['locations'] the locations it skipped
SconsRules_PrunesSkipped ==
    /\ pc = "built"
    /\ registered
    /\ Len(emitted) < MaxRuns
    /\ \A i \in 1..Len(deps) : deps[i] \in DOMAIN targets
    /\ emitted' = Append(emitted, SconsRulesOutput(sources, locations, targets, type))
    /\ locations' = SelectSeq(locations, LAMBDA l : GetTargetVar(targets, l[1], l[2]) # <<>>)
    /\ UNCHANGED <<pc, type, sources, deps, expanded_deps, s, n, error,
                   registered, targets, listing>>

\* The engine runs scons_rules on the registered target, once every target it
\* depends on is in the registry
SconsRules ==
    /\ pc = "built"
    /\ registered
    /\ Len(emitted) < MaxRuns
    /\ \A i \in 1..Len(deps) : deps[i] \in DOMAIN targets
    /\ emitted' = Append(emitted, SconsRulesOutput(sources, locations, targets, type))
    /\ UNCHANGED <<pc, type, sources, locations, deps, expanded_deps, s, n, error,
                   registered, targets, listing>>

Next ==
    \/ Construct
    \/ \E spec \in SrcSpecs : ProcessSrc(spec)
    \/ Register
    \/ SconsRules

Spec == Init /\ [][Next]_vars

\* ------------------------------------------------------------------------
\* Vocabulary of the properties
\* ------------------------------------------------------------------------
Count(list, x) == Cardinality({i \in DOMAIN list : list[i] = x})

\* a path holding a ".." segment
HasTraversalSegment(path) ==
    \E i \in DOMAIN Split(path, <<>>) : Split(path, <<>>)[i] = DotDot

\* a bare string or a (path, destination) pair
WellShaped(spec) ==
    \/ spec.shape = "str"
    \/ spec.shape = "tuple" /\ Len(spec.items) = 2

WrongShaped(spec) == spec.shape \in {"tuple", "list"} /\ ~WellShaped(spec)

SpecSrc(spec) == spec.items[1]
SpecDst(spec) == IF spec.shape = "tuple" THEN spec.items[2] ELSE <<>>

\* the loop has just taken a specification, now held by s
Taken == n' = n + 1

\* the specification in s was taken by the loop and construction went on
Accepted == n > 0 /\ pc # "failed"

IsFilesystemSpec(spec) == WellShaped(spec) /\ ~StartsWith(SpecSrc(spec), LocationOpen)

\* the source path without a leading workspace-root marker
Unmarked(src) == IF StartsWith(src, Marker) THEN Drop(src, 2) ELSE src

\* where a filesystem source lies: under the workspace root when marked,
\* under the package's directory otherwise
Resolved(src) ==
    IF StartsWith(src, Marker) THEN Drop(src, 2)
    ELSE IF src = <<>> THEN PkgPath
    ELSE PkgPath \o <<"/">> \o src

\* the destination a filesystem specification asks for
Destination(spec) ==
    IF SpecDst(spec) = <<>> THEN Unmarked(SpecSrc(spec)) ELSE SpecDst(spec)

\* the regular files in the subtree of a directory
FilesUnder(root) == {f \in Files : StartsWith(f, root \o <<"/">>)}

\* the location at position i (1-based) names an output its target has
HasOutput(i) == locations[i][2] \in targets[locations[i][1]]

Staged(i) == locations[i][3] # <<>>

\* the positions of the locations that are not skipped, in order
KeptLocations ==
    SelectSeq([i \in 1..Len(locations) |-> i], LAMBDA i : HasOutput(i))

StagedLocations == SelectSeq(KeptLocations, LAMBDA i : Staged(i))

SourceVarAt(i) == <<"v", "_">> \o Name \o <<"_", "_", "s", "o", "u", "r", "c", "e", "_", "_", ToString(i - 1)>>
LocationVarAt(i) ==
    <<"v", "_">> \o Name \o
    <<"_", "_", "l", "o", "c", "a", "t", "i", "o", "n", "_", "_", ToString(i - 1)>>
OutputVarAt(i) == <<"v", "_">> \o locations[i][1] \o <<"_", "_">> \o locations[i][2]

\* the inputs the archive rule is to have
ExpectedInputs ==
    [i \in 1..Len(sources) |-> SourceVarAt(i)] \o
    [k \in 1..Len(KeptLocations) |->
        IF Staged(KeptLocations[k]) THEN LocationVarAt(KeptLocations[k])
        ELSE OutputVarAt(KeptLocations[k])]

StagingDir == TargetFilePath \o <<".", "s", "o", "u", "r", "c", "e", "s">>

\* the archive-relative destinations of the staged inputs, in order
StagedDestinations ==
    [i \in 1..Len(sources) |-> sources[i][2]] \o
    [k \in 1..Len(StagedLocations) |-> locations[StagedLocations[k]][3]]

\* the same inputs' paths in the staging directory
StagedPaths ==
    [i \in 1..Len(StagedDestinations) |-> Join(StagingDir, StagedDestinations[i])]

RulesOf(run, op) == SelectSeq(run.rules, LAMBDA rule : rule.op = op)

ArchiveInputs(run) == RulesOf(run, "Package")[1].source

\* ------------------------------------------------------------------------
\* Properties
\* ------------------------------------------------------------------------

\* C1 (as claimed): a specification with a ".." segment in its path or its
\* destination, location references included, is rejected with a fatal
\* configuration error and adds nothing to sources or locations.
C1_TraversalRejected ==
    [][(/\ Taken
        /\ WellShaped(s')
        /\ \/ HasTraversalSegment(SpecSrc(s'))
           \/ HasTraversalSegment(SpecDst(s')))
       => (/\ pc' = "failed"
           /\ error'.exc = "SystemExit"
           /\ UNCHANGED <<sources, locations>>)]_vars

\* C2: every key in locations is in deps and in expanded_deps, exactly once
\* in each, however many location references name it.
C2_DependencyClosure ==
    \A i \in DOMAIN locations :
        /\ Count(deps, locations[i][1]) = 1
        /\ Count(expanded_deps, locations[i][1]) = 1

C2_Witness ==
    \E i, j \in DOMAIN locations :
        /\ i # j
        /\ locations[i][1] = locations[j][1]
        /\ locations[i][2] # locations[j][2]

\* C3: a location whose target has no output of the kind asked for gives a
\* warning naming this target, the key and the kind, no staging rule, no
\* archive input and no destination path; the other locations are still
\* processed and the archive rule has exactly the other inputs.
C3_MissingOutputTolerance ==
    \A k \in DOMAIN emitted : \A i \in DOMAIN locations :
        ~HasOutput(i) =>
            /\ Count(emitted[k].warnings, <<FullName, locations[i][1], locations[i][2]>>) >= 1
            /\ \A j \in DOMAIN emitted[k].rules :
                  emitted[k].rules[j].var # LocationVarAt(i)
            /\ Len(RulesOf(emitted[k], "Package")) = 1
            /\ ArchiveInputs(emitted[k]) = ExpectedInputs
            /\ Len(emitted[k].warnings) = Len(locations) - Len(KeptLocations)
            /\ \A j \in DOMAIN emitted[k].rules :
                  emitted[k].rules[j].op = "Depends" =>
                      Len(emitted[k].rules[j].value) =
                          Len(sources) + Len(StagedLocations)

C3_Witness ==
    /\ emitted # <<>>
    /\ \E i, j \in DOMAIN locations : i < j /\ ~HasOutput(i) /\ HasOutput(j)

\* C4: a run emits exactly one archive rule, after all staging rules, with
\* output <target file path>.<type> and with inputs the sources' staged
\* variables in order, then the non-skipped locations' variables in order.
C4_ArchiveRule ==
    \A k \in DOMAIN emitted :
        /\ Len(RulesOf(emitted[k], "Package")) = 1
        /\ \A i, j \in DOMAIN emitted[k].rules :
              (emitted[k].rules[i].op = "PackageSource"
               /\ emitted[k].rules[j].op = "Package") => i < j
        /\ RulesOf(emitted[k], "Package")[1].target = TargetFilePath \o <<".">> \o type
        /\ ArchiveInputs(emitted[k]) = ExpectedInputs
        /\ Len(RulesOf(emitted[k], "PackageSource")) =
               Len(sources) + Len(StagedLocations)

C4_Witness ==
    /\ emitted # <<>>
    /\ Len(sources) >= 2
    /\ \E i \in DOMAIN locations : HasOutput(i)

\* C5: every entry of sources has a non-empty destination; a file given
\* without a destination gets its source path, less a leading "//", as
\* destination; giving the same such specification again gives the same
\* (path, destination) pair.
C5_NonEmptyDestination ==
    /\ [](\A i \in DOMAIN sources : sources[i][2] # <<>>)
    /\ []((/\ Accepted
           /\ IsFilesystemSpec(s)
           /\ SpecDst(s) = <<>>
           /\ Resolved(SpecSrc(s)) \in Files)
          => (/\ sources # <<>>
              /\ Last(sources) = <<Resolved(SpecSrc(s)), Unmarked(SpecSrc(s))>>))
    /\ [][(/\ Taken
           /\ s' = s
           /\ pc' # "failed"
           /\ IsFilesystemSpec(s)
           /\ SpecDst(s) = <<>>
           /\ Resolved(SpecSrc(s)) \in Files)
          => (sources # <<>> /\ Last(sources') = Last(sources))]_vars

C5_Witness ==
    /\ Accepted
    /\ s = Str(<<"/", "/", "w">>)
    /\ Len(sources) = 2
    /\ sources[1] = sources[2]

\* C6: a directory with destination D adds exactly one entry
\* (file, join(D, file's path below the directory)) per regular file of its
\* subtree and none for a directory; a regular file adds exactly its own
\* (path, destination).
C6_DirectoryExpansion ==
    [][(Taken /\ pc' # "failed" /\ IsFilesystemSpec(s'))
       => LET root == Resolved(SpecSrc(s'))
              D == Destination(s')
              added == SubSeq(sources', Len(sources) + 1, Len(sources'))
          IN /\ Len(sources') >= Len(sources)
             /\ SubSeq(sources', 1, Len(sources)) = sources
             /\ root \in Dirs =>
                   /\ {added[i] : i \in DOMAIN added} =
                          {<<f, Join(D, Drop(f, Len(root) + 1))>> : f \in FilesUnder(root)}
                   /\ Len(added) = Cardinality(FilesUnder(root))
             /\ root \in Files => added = << <<root, D>> >>]_vars

C6_Witness ==
    /\ Accepted
    /\ s = Tup(<< <<"d">>, <<"o">> >>)
    /\ Len(sources) = 2
    /\ \E i \in DOMAIN sources :
          sources[i] = << <<"p", "/", "d", "/", "e", "/", "c">>,
                          <<"o", "/", "e", "/", "c">> >>

\* C7 (as claimed): a specification that is neither a string nor a pair - a
\* tuple of another length, a non-tuple sequence - ends construction in a
\* fatal configuration error naming the target's full name and the value,
\* adds nothing to sources, locations or deps, and the target is never
\* registered.
C7_WrongShapeRejected ==
    /\ [][(Taken /\ WrongShaped(s'))
          => (/\ pc' = "failed"
              /\ error' = ErrorExit(s')
              /\ UNCHANGED <<sources, locations, deps, expanded_deps>>)]_vars
    /\ [](pc = "failed" => ~registered)

\* C8 (as claimed): the value dependency is emitted iff a staging rule was
\* emitted in the run, and its value is the list of the archive-relative
\* destinations of the staged inputs, sources first, then staged locations.
C8_ValueIsDestinations ==
    \A k \in DOMAIN emitted :
        /\ Len(RulesOf(emitted[k], "Depends")) <= 1
        /\ RulesOf(emitted[k], "Depends") # <<>>
               <=> RulesOf(emitted[k], "PackageSource") # <<>>
        /\ RulesOf(emitted[k], "Depends") # <<>>
               => RulesOf(emitted[k], "Depends")[1].value = StagedDestinations

\* C8 (amended): the value dependency is emitted iff a staging rule was
\* emitted in the run, and its value is the list of the staged inputs' paths
\* in the staging directory (os.path.join of <target file path>.sources and
\* the destination), sources first, then staged locations.
C8_LayoutValueDependency ==
    \A k \in DOMAIN emitted :
        /\ Len(RulesOf(emitted[k], "Depends")) <= 1
        /\ RulesOf(emitted[k], "Depends") # <<>>
               <=> RulesOf(emitted[k], "PackageSource") # <<>>
        /\ RulesOf(emitted[k], "Depends") # <<>>
               => /\ RulesOf(emitted[k], "Depends")[1].value = StagedPaths
                  /\ RulesOf(emitted[k], "Depends")[1].var
                         = RulesOf(emitted[k], "Package")[1].var

C8_Witness ==
    /\ emitted # <<>>
    /\ sources # <<>>
    /\ StagedLocations # <<>>
    /\ RulesOf(emitted[1], "Depends") # <<>>

\* C9: a location whose target has the output gets exactly one staging rule
\* when its destination is non-empty, named by its position in locations
\* and mapping the target's output variable to the staging directory joined
\* with the destination, and none when the destination is empty, the output
\* variable then being the archive input; the staging variables of one run
\* are pairwise distinct.
C9_LocationStaging ==
    \A k \in DOMAIN emitted :
        /\ \A i \in DOMAIN locations :
              HasOutput(i) =>
                  LET named == SelectSeq(emitted[k].rules,
                                         LAMBDA rule : rule.var = LocationVarAt(i))
                  IN IF Staged(i)
                     THEN /\ Len(named) = 1
                          /\ named[1].op = "PackageSource"
                          /\ named[1].source = <<OutputVarAt(i)>>
                          /\ named[1].target = Join(StagingDir, locations[i][3])
                          /\ Count(ArchiveInputs(emitted[k]), LocationVarAt(i)) = 1
                     ELSE /\ named = <<>>
                          /\ Count(ArchiveInputs(emitted[k]), OutputVarAt(i)) >= 1
                          /\ \A j \in DOMAIN emitted[k].rules :
                                emitted[k].rules[j].op = "PackageSource" =>
                                    emitted[k].rules[j].source # <<OutputVarAt(i)>>
        /\ \A i, j \in DOMAIN emitted[k].rules :
              (/\ emitted[k].rules[i].op = "PackageSource"
               /\ emitted[k].rules[j].op = "PackageSource"
               /\ i # j)
              => emitted[k].rules[i].var # emitted[k].rules[j].var

C9_Witness ==
    /\ emitted # <<>>
    /\ Len(locations) = 2
    /\ ~HasOutput(1)
    /\ HasOutput(2)
    /\ Staged(2)

\* C10: rule emission leaves sources, locations, deps and the type alone,
\* and every run over them gives the same archive inputs and the same
\* value list.
C10_ReadOnlyEmission ==
    /\ [][Len(emitted') > Len(emitted)
          => UNCHANGED <<sources, locations, deps, expanded_deps, type>>]_vars
    /\ [](\A i, j \in DOMAIN emitted :
             /\ ArchiveInputs(emitted[i]) = ArchiveInputs(emitted[j])
             /\ RulesOf(emitted[i], "Depends") = RulesOf(emitted[j], "Depends")
             /\ emitted[i] = emitted[j])

C10_Witness ==
    /\ Len(emitted) >= 2
    /\ sources # <<>>
    /\ locations # <<>>
    /\ ArchiveInputs(emitted[2]) # <<>>

====
